---- MODULE Spec2Model ----
(***************************************************************************)
(* Model of the plotter component src/src/App.vue: the expression rows,    *)
(* the domain parameters, the asynchronous plotGraph request (a            *)
(* synchronous validation part, one await, a synchronous sampling and      *)
(* rendering part) and the chart resource it owns.                         *)
(*                                                                         *)
(* JavaScript values are records [t, n, d]: t = "num" is the rational n/d  *)
(* (d > 0, lowest terms), t = "str" is the string String(n/d), t = "empty" *)
(* is the string '' (what a v-model.number input holds once emptied),      *)
(* t = "inf" an infinite number, t = "null" is null.  Arithmetic is exact  *)
(* rational arithmetic; binary rounding is not modelled.                   *)
(* Expression texts are sequences of one-character strings.                *)
(***************************************************************************)
EXTENDS Integers, Sequences, FiniteSets

\* ---------------------------------------------------------------- bounds
MaxExprs == 2      \* rows the form may hold at once
MaxId == 3         \* ids handed out before addExpression is no longer taken
MaxCharts == 2     \* charts created before the plot button is no longer taken
MaxEdits == 3      \* edits of the form (rows and numeric inputs) in one run

\* ------------------------------------------------------ program constants
MinPoints == 2
MaxPoints == 1000
InitMinX == -10
InitMaxX == 10
InitNumPoints == 100
RadiusLine == 0
RadiusMarker == 3

\* ------------------------------------------------------------ JS values
Abs(a) == IF a < 0 THEN -a ELSE a

RECURSIVE GCD(_, _)
GCD(a, b) == IF b = 0 THEN a ELSE GCD(b, a % b)

\* the number n/d in lowest terms with a positive denominator
Num(n, d) ==
  LET g == GCD(Abs(n), Abs(d))
      s == IF d < 0 THEN -1 ELSE 1
  IN [t |-> "num", n |-> (s * n) \div g, d |-> (s * d) \div g]

IntNum(k) == [t |-> "num", n |-> k, d |-> 1]
EmptyStr == [t |-> "empty", n |-> 0, d |-> 1]
Null == [t |-> "null", n |-> 0, d |-> 1]
Infinite == [t |-> "inf", n |-> 0, d |-> 1]

IsNumber(v) == v.t \in {"num", "inf"}
IsString(v) == v.t \in {"str", "empty"}

\* ToNumber of a number or a numeric string ('' converts to 0)
ToNumber(v) == IF v.t = "empty" THEN IntNum(0) ELSE Num(v.n, v.d)

Sub(a, b) == Num(a.n * b.d - b.n * a.d, a.d * b.d)
Mul(a, b) == Num(a.n * b.n, a.d * b.d)
Div(a, b) == Num(a.n * b.d, a.d * b.n)
Less(a, b) == a.n * b.d < b.n * a.d

\* a < b and a >= b of JavaScript on numbers and numeric strings
JsLess(a, b) == IF IsString(a) /\ IsString(b) THEN FALSE ELSE Less(ToNumber(a), ToNumber(b))
JsGreaterEq(a, b) == IF IsString(a) /\ IsString(b) THEN TRUE ELSE ~Less(ToNumber(a), ToNumber(b))

\* a + b of JavaScript where b is a number: concatenation when a is a string
JsPlus(a, b) ==
  IF IsString(a) THEN [t |-> "str", n |-> b.n, d |-> b.d]
  ELSE Num(a.n * b.d + b.n * a.d, a.d * b.d)

\* Number.prototype.toFixed(2): sign and the rounded count of hundredths
ToFixed(v) ==
  LET scale == 10 * 10
      a == Abs(v.n) * scale
      q == a \div v.d
      r == a % v.d
  IN [neg |-> v.n < 0, h |-> IF 2 * r >= v.d THEN q + 1 ELSE q]

NoLabel == [neg |-> FALSE, h |-> 0]

\* ---------------------------------------------------------------- texts
IsSpace(c) == c = " "

RECURSIVE TrimStart(_)
TrimStart(s) == IF s # <<>> /\ IsSpace(Head(s)) THEN TrimStart(Tail(s)) ELSE s

RECURSIVE TrimEnd(_)
TrimEnd(s) ==
  IF s # <<>> /\ IsSpace(s[Len(s)]) THEN TrimEnd(SubSeq(s, 1, Len(s) - 1)) ELSE s

Trim(s) == TrimEnd(TrimStart(s))
IsBlank(s) == Trim(s) = <<>>

\* currentExpression.value.match(/[xX]/)
MatchesX(s) == \E i \in 1..Len(s) : s[i] \in {"x", "X"}

TextX == <<"x">>
TextSquare == <<"x", "^", "2">>
TextInverse == <<"1", "/", "x">>
TextParen == <<"(">>
TextY == <<"y">>
Texts == {<<>>, <<" ">>, TextX, TextSquare, TextInverse, TextParen, TextY}

\* math.compile(text) throws a syntax error
CompileThrows(s) == Trim(s) = TextParen

\* compiledExpr.evaluate({x}) throws (an undefined symbol)
EvaluateThrows(s, x) == Trim(s) = TextY

\* compiledExpr.evaluate({x}) when it returns; a numeric string operand of
\* an arithmetic operator is converted to its number, a bare symbol is not
Evaluate(s, x) ==
  CASE Trim(s) = TextX -> x
    [] Trim(s) = TextSquare -> Mul(ToNumber(x), ToNumber(x))
    [] Trim(s) = TextInverse ->
         IF ToNumber(x).n = 0 THEN Infinite ELSE Div(IntNum(1), ToNumber(x))
    [] OTHER -> Null

\* typeof y === 'number' && isFinite(y) ? y : null
Sample(y) == IF IsNumber(y) /\ y.t # "inf" THEN y ELSE Null

\* what v-model.number stores for the DOM value of a number input:
\* looseToNumber keeps the string when parseFloat yields NaN
LooseToNumber(dom) == IF dom.t = "empty" THEN dom ELSE Num(dom.n, dom.d)

\* ---------------------------------------------------------------- state
VARIABLES
  expressions,   \* the rows, each [id, value]
  nextExprId,    \* the id the next row gets
  issued,        \* every id handed out so far, in order (history)
  minX, maxX, numPoints,
  errorMessage,  \* the banner: [kind, expr, at], kind "" when empty
  loading,
  chartCanvas,   \* TRUE while the canvas template ref is set
  chartInstance, \* the chart the component refers to, 0 for null
  created,       \* charts constructed so far; they are numbered 1..created
  destroyed,     \* charts on which destroy() has been called
  redestroyed,   \* destroy() was called on an already destroyed chart (history)
  chartData,     \* labels and datasets handed to the last constructed chart
  plotted,       \* the texts and domain parameters that chart was made from (history)
  phase,         \* "setup", "mounted" or "unmounted"
  pc,            \* "idle", or "awaiting" while plotGraph is suspended at nextTick
  outcome,       \* how the last plotGraph call went (history)
  xValues,       \* the domain points of the last sampling (history)
  edits          \* edits of the form made so far

vars == <<expressions, nextExprId, issued, minX, maxX, numPoints, errorMessage,
          loading, chartCanvas, chartInstance, created, destroyed, redestroyed,
          chartData, plotted, phase, pc, outcome, xValues, edits>>

rowVars == <<expressions, nextExprId, issued>>
paramVars == <<minX, maxX, numPoints>>
chartVars == <<chartInstance, created, destroyed, redestroyed, chartData, plotted>>

lineColors ==
  << "rgb(75, 192, 192)", "rgb(255, 99, 132)", "rgb(54, 162, 235)",
     "rgb(255, 206, 86)", "rgb(153, 102, 255)", "rgb(255, 159, 64)",
     "rgb(201, 203, 207)" >>

getLineColor(index) == lineColors[(index % Len(lineColors)) + 1]

NoMsg == [kind |-> "", expr |-> <<>>, at |-> NoLabel]
MsgEmpty == [kind |-> "empty", expr |-> <<>>, at |-> NoLabel]
MsgRange == [kind |-> "range", expr |-> <<>>, at |-> NoLabel]
MsgCount == [kind |-> "count", expr |-> <<>>, at |-> NoLabel]
MsgParse(text) == [kind |-> "parse", expr |-> text, at |-> NoLabel]
MsgEval(text, x) == [kind |-> "eval", expr |-> text, at |-> ToFixed(x)]
MsgNoValid == [kind |-> "novalid", expr |-> <<>>, at |-> NoLabel]

NoData == [labels |-> <<>>, datasets |-> <<>>]

\* the inputs a plot is computed from
Inputs(rows, mn, mx, np) ==
  [texts |-> [i \in 1..Len(rows) |-> rows[i].value], minX |-> mn, maxX |-> mx,
   numPoints |-> np]

Init ==
  /\ expressions = << [id |-> 1, value |-> TextSquare] >>
  /\ nextExprId = 2
  /\ issued = <<1>>
  /\ minX = IntNum(InitMinX)
  /\ maxX = IntNum(InitMaxX)
  /\ numPoints = IntNum(InitNumPoints)
  /\ errorMessage = NoMsg
  /\ loading = FALSE
  /\ chartCanvas = FALSE
  /\ chartInstance = 0
  /\ created = 0
  /\ destroyed = {}
  /\ redestroyed = FALSE
  /\ chartData = NoData
  /\ plotted = Inputs(<<>>, Null, Null, Null)
  /\ phase = "setup"
  /\ pc = "idle"
  /\ outcome = "none"
  /\ xValues = <<>>
  /\ edits = 0

\* ------------------------------------------------------------ the rows
\* the remove button is rendered only while there is more than one row
RemoveShown == Len(expressions) > 1

\* expressions.value.filter((expr) => expr.id !== idToRemove)
RECURSIVE Filter(_, _)
Filter(rows, idToRemove) ==
  IF rows = <<>> THEN <<>>
  ELSE IF Head(rows).id # idToRemove
       THEN <<Head(rows)>> \o Filter(Tail(rows), idToRemove)
       ELSE Filter(Tail(rows), idToRemove)

Removed(rows, idToRemove) == IF Len(rows) > 1 THEN Filter(rows, idToRemove) ELSE rows

\* The form is usable while the component is mounted.  The rows may change
\* while a request is suspended at its await (the case lines 173-181 of
\* plotGraph guard against); the numeric inputs change between requests.
FormLive == phase = "mounted"

Edit == edits < MaxEdits /\ edits' = edits + 1

\* addExpression without the increment of nextExprId
addExpressionSameId ==
  /\ FormLive /\ Edit
  /\ Len(expressions) < MaxExprs
  /\ nextExprId <= MaxId
  /\ expressions' = Append(expressions, [id |-> nextExprId, value |-> <<>>])
  /\ issued' = Append(issued, nextExprId)
  /\ nextExprId' = nextExprId
  /\ UNCHANGED <<paramVars, errorMessage, loading, chartCanvas, chartVars, phase,
                 pc, outcome, xValues>>

addExpression ==
  /\ FormLive /\ Edit
  /\ Len(expressions) < MaxExprs
  /\ nextExprId <= MaxId
  /\ expressions' = Append(expressions, [id |-> nextExprId, value |-> <<>>])
  /\ issued' = Append(issued, nextExprId)
  /\ nextExprId' = nextExprId + 1
  /\ UNCHANGED <<paramVars, errorMessage, loading, chartCanvas, chartVars, phase,
                 pc, outcome, xValues>>

removeExpression ==
  /\ FormLive /\ Edit
  /\ RemoveShown
  /\ \E i \in 1..Len(expressions) :
       expressions' = Removed(expressions, expressions[i].id)
  /\ UNCHANGED <<nextExprId, issued, paramVars, errorMessage, loading, chartCanvas,
                 chartVars, phase, pc, outcome, xValues>>

\* v-model="expr.value" on a row
editExpression ==
  /\ FormLive /\ Edit
  /\ \E i \in 1..Len(expressions), text \in Texts :
       /\ text # expressions[i].value
       /\ expressions' = [expressions EXCEPT ![i].value = text]
  /\ UNCHANGED <<nextExprId, issued, paramVars, errorMessage, loading, chartCanvas,
                 chartVars, phase, pc, outcome, xValues>>

\* DOM values of the numeric inputs: '' once emptied, else a numeric string
NumStr(n, d) == [t |-> "str", n |-> n, d |-> d]
BoundInputs == {EmptyStr, NumStr(-1, 1), NumStr(1, 1)}
PointInputs == {EmptyStr, NumStr(1, 1), NumStr(2, 1), NumStr(3, 1), NumStr(5, 2),
                NumStr(MaxPoints + 1, 1)}

editMinX ==
  /\ FormLive /\ pc = "idle" /\ Edit
  /\ \E dom \in BoundInputs : minX' = LooseToNumber(dom) /\ minX' # minX
  /\ UNCHANGED <<rowVars, maxX, numPoints, errorMessage, loading, chartCanvas,
                 chartVars, phase, pc, outcome, xValues>>

editMaxX ==
  /\ FormLive /\ pc = "idle" /\ Edit
  /\ \E dom \in BoundInputs : maxX' = LooseToNumber(dom) /\ maxX' # maxX
  /\ UNCHANGED <<rowVars, minX, numPoints, errorMessage, loading, chartCanvas,
                 chartVars, phase, pc, outcome, xValues>>

editNumPoints ==
  /\ FormLive /\ pc = "idle" /\ Edit
  /\ \E dom \in PointInputs : numPoints' = LooseToNumber(dom) /\ numPoints' # numPoints
  /\ UNCHANGED <<rowVars, minX, maxX, errorMessage, loading, chartCanvas,
                 chartVars, phase, pc, outcome, xValues>>

\* ----------------------------------------------------------- plotGraph
\* expressions.value.every((expr) => !expr.value.trim())
AllBlank(rows) == \A i \in 1..Len(rows) : IsBlank(rows[i].value)

\* minX.value === null || maxX.value === null || minX.value >= maxX.value
RangeInvalid(mn, mx) == mn = Null \/ mx = Null \/ JsGreaterEq(mn, mx)

\* numPoints.value < 2 || numPoints.value > 1000
CountInvalid(np) == JsLess(np, IntNum(MinPoints)) \/ JsLess(IntNum(MaxPoints), np)

\* Validate with the range check made before the blank check
ValidateRangeFirst(rows, mn, mx, np) ==
  IF RangeInvalid(mn, mx) THEN MsgRange
  ELSE IF AllBlank(rows) THEN MsgEmpty
  ELSE IF CountInvalid(np) THEN MsgCount
  ELSE NoMsg

\* the message of the first validation that fails, NoMsg when all pass
Validate(rows, mn, mx, np) ==
  IF AllBlank(rows) THEN MsgEmpty
  ELSE IF RangeInvalid(mn, mx) THEN MsgRange
  ELSE IF CountInvalid(np) THEN MsgCount
  ELSE NoMsg

\* plotGraph up to its await: a failed validation sets the banner and
\* returns, otherwise the banner is cleared and loading is set
PlotStart ==
  LET msg == Validate(expressions, minX, maxX, numPoints) IN
  IF msg # NoMsg
  THEN /\ errorMessage' = msg
       /\ outcome' = msg.kind
       /\ UNCHANGED <<loading, pc>>
  ELSE /\ errorMessage' = NoMsg
       /\ loading' = TRUE
       /\ pc' = "awaiting"
       /\ outcome' = "pending"

\* the number of iterations of for (i = 0; i < np; i++), np >= 0
LoopCount(np) == (ToNumber(np).n + ToNumber(np).d - 1) \div ToNumber(np).d

\* Step dividing by the number of points instead of the number of intervals
StepByCount(mn, mx, np) == Div(Sub(ToNumber(mx), ToNumber(mn)), ToNumber(np))

Step(mn, mx, np) == Div(Sub(ToNumber(mx), ToNumber(mn)), Sub(ToNumber(np), IntNum(1)))

\* the xValues array
XValues(mn, mx, np) ==
  [i \in 1..LoopCount(np) |-> JsPlus(mn, Mul(IntNum(i - 1), Step(mn, mx, np)))]

\* the first domain point at which evaluating text throws, 0 when none
FirstThrow(text, xs) ==
  IF \E j \in 1..Len(xs) : EvaluateThrows(text, xs[j])
  THEN CHOOSE j \in 1..Len(xs) :
         /\ EvaluateThrows(text, xs[j])
         /\ \A k \in 1..(j - 1) : ~EvaluateThrows(text, xs[k])
  ELSE 0

YValues(text, xs) == [j \in 1..Len(xs) |-> Sample(Evaluate(text, xs[j]))]

\* Dataset with a colour index that runs on across the charts made so far
DatasetColorByChart(i, text, xs) ==
  [label |-> <<"y", " ", "=", " ">> \o text,
   data |-> YValues(text, xs),
   borderColor |-> getLineColor(i + created),
   pointRadius |-> IF MatchesX(text) THEN RadiusLine ELSE RadiusMarker]

\* the dataset pushed for row i (counted from 0) of the form
Dataset(i, text, xs) ==
  [label |-> <<"y", " ", "=", " ">> \o text,
   data |-> YValues(text, xs),
   borderColor |-> getLineColor(i),
   pointRadius |-> IF MatchesX(text) THEN RadiusLine ELSE RadiusMarker]

\* SampleRows without the continue that skips a blank row
RECURSIVE SampleRowsKeepBlank(_, _, _, _)
SampleRowsKeepBlank(rows, xs, i, datasets) ==
  IF i > Len(rows) THEN [kind |-> "done", expr |-> <<>>, at |-> 0, datasets |-> datasets]
  ELSE LET text == rows[i].value IN
    IF CompileThrows(text)
      THEN [kind |-> "parse", expr |-> text, at |-> 0, datasets |-> datasets]
    ELSE IF FirstThrow(text, xs) # 0
      THEN [kind |-> "eval", expr |-> text, at |-> FirstThrow(text, xs),
            datasets |-> datasets]
    ELSE SampleRowsKeepBlank(rows, xs, i + 1, Append(datasets, Dataset(i - 1, text, xs)))

\* SampleRows colouring a curve by the number of datasets pushed before it
RECURSIVE SampleRowsCurveIndex(_, _, _, _)
SampleRowsCurveIndex(rows, xs, i, datasets) ==
  IF i > Len(rows) THEN [kind |-> "done", expr |-> <<>>, at |-> 0, datasets |-> datasets]
  ELSE LET text == rows[i].value IN
    IF IsBlank(text) THEN SampleRowsCurveIndex(rows, xs, i + 1, datasets)
    ELSE IF CompileThrows(text)
      THEN [kind |-> "parse", expr |-> text, at |-> 0, datasets |-> datasets]
    ELSE IF FirstThrow(text, xs) # 0
      THEN [kind |-> "eval", expr |-> text, at |-> FirstThrow(text, xs),
            datasets |-> datasets]
    ELSE SampleRowsCurveIndex(rows, xs, i + 1,
                              Append(datasets, Dataset(Len(datasets), text, xs)))

\* the loop over the rows from row i on (counted from 1), datasets so far
RECURSIVE SampleRows(_, _, _, _)
SampleRows(rows, xs, i, datasets) ==
  IF i > Len(rows) THEN [kind |-> "done", expr |-> <<>>, at |-> 0, datasets |-> datasets]
  ELSE LET text == rows[i].value IN
    IF IsBlank(text) THEN SampleRows(rows, xs, i + 1, datasets)
    ELSE IF CompileThrows(text)
      THEN [kind |-> "parse", expr |-> text, at |-> 0, datasets |-> datasets]
    ELSE IF FirstThrow(text, xs) # 0
      THEN [kind |-> "eval", expr |-> text, at |-> FirstThrow(text, xs),
            datasets |-> datasets]
    ELSE SampleRows(rows, xs, i + 1, Append(datasets, Dataset(i - 1, text, xs)))

\* x.toFixed(2) is a TypeError when x is a string
ToFixedThrows(x) == IsString(x)

Labels(xs) == [j \in 1..Len(xs) |-> ToFixed(xs[j])]

\* DestroyChart that releases nothing
DestroyChartKept(c) ==
  /\ destroyed' = destroyed
  /\ redestroyed' = redestroyed

\* chartInstance.destroy()
DestroyChart(c) ==
  /\ destroyed' = destroyed \cup {c}
  /\ redestroyed' = (redestroyed \/ c \in destroyed)

\* plotGraph after its await, to its end.  An exception that no handler
\* catches ends the request where it is raised ("threw").
Resume ==
  /\ pc = "awaiting"
  /\ pc' = "idle"
  /\ \E xs \in {XValues(minX, maxX, numPoints)} :
     \E r \in {SampleRows(expressions, xs, 1, <<>>)} :
     /\ xValues' = xs
     /\ CASE r.kind = "parse" ->
               /\ errorMessage' = MsgParse(r.expr)
               /\ loading' = FALSE
               /\ outcome' = "parse"
               /\ UNCHANGED chartVars
          [] r.kind = "eval" /\ ~ToFixedThrows(xs[r.at]) ->
               /\ errorMessage' = MsgEval(r.expr, xs[r.at])
               /\ loading' = FALSE
               /\ outcome' = "eval"
               /\ UNCHANGED chartVars
          [] r.kind = "eval" /\ ToFixedThrows(xs[r.at]) ->
               /\ outcome' = "evalthrew"
               /\ UNCHANGED <<errorMessage, loading, chartVars>>
          [] r.kind = "done" /\ r.datasets = <<>> ->
               /\ errorMessage' = MsgNoValid
               /\ IF chartInstance # 0
                  THEN DestroyChart(chartInstance) /\ chartInstance' = 0
                  ELSE UNCHANGED <<chartInstance, destroyed, redestroyed>>
               /\ loading' = FALSE
               /\ outcome' = "novalid"
               /\ UNCHANGED <<created, chartData, plotted>>
          [] r.kind = "done" /\ r.datasets # <<>> ->
               /\ IF chartInstance # 0
                  THEN DestroyChart(chartInstance)
                  ELSE UNCHANGED <<destroyed, redestroyed>>
               /\ IF ~chartCanvas
                  THEN /\ loading' = FALSE
                       /\ outcome' = "nocanvas"
                       /\ UNCHANGED <<chartInstance, created, chartData, plotted>>
                  ELSE IF \E j \in 1..Len(xs) : ToFixedThrows(xs[j])
                  THEN /\ outcome' = "threw"
                       /\ UNCHANGED <<loading, chartInstance, created, chartData, plotted>>
                  ELSE /\ created' = created + 1
                       /\ chartInstance' = created + 1
                       /\ chartData' = [labels |-> Labels(xs), datasets |-> r.datasets]
                       /\ plotted' = Inputs(expressions, minX, maxX, numPoints)
                       /\ loading' = FALSE
                       /\ outcome' = "created"
               /\ UNCHANGED errorMessage
  /\ UNCHANGED <<rowVars, paramVars, chartCanvas, phase, edits>>

\* the plot button, disabled while loading
PlotClick ==
  /\ FormLive
  /\ ~loading
  /\ created < MaxCharts
  /\ PlotStart
  /\ UNCHANGED <<rowVars, paramVars, chartCanvas, chartVars, phase, xValues, edits>>

\* the component is mounted: the canvas ref is set, then onMounted runs
Mount ==
  /\ phase = "setup"
  /\ phase' = "mounted"
  /\ chartCanvas' = TRUE
  /\ IF \E i \in 1..Len(expressions) : ~IsBlank(expressions[i].value)
     THEN PlotStart
     ELSE UNCHANGED <<errorMessage, loading, pc, outcome>>
  /\ UNCHANGED <<rowVars, paramVars, chartVars, xValues, edits>>

\* Unmount without the destroy of onBeforeUnmount
UnmountKeepsChart ==
  /\ phase = "mounted"
  /\ phase' = "unmounted"
  /\ chartCanvas' = FALSE
  /\ UNCHANGED <<rowVars, paramVars, errorMessage, loading, chartVars, pc, outcome,
                 xValues, edits>>

\* the component is torn down: onBeforeUnmount runs, then the ref is unset
Unmount ==
  /\ phase = "mounted"
  /\ phase' = "unmounted"
  /\ chartCanvas' = FALSE
  /\ IF chartInstance # 0
     THEN DestroyChart(chartInstance)
     ELSE UNCHANGED <<destroyed, redestroyed>>
  /\ UNCHANGED <<rowVars, paramVars, errorMessage, loading, chartInstance, created,
                 chartData, plotted, pc, outcome, xValues, edits>>

Next ==
  \/ Mount
  \/ addExpression
  \/ removeExpression
  \/ editExpression
  \/ editMinX
  \/ editMaxX
  \/ editNumPoints
  \/ PlotClick
  \/ Resume
  \/ Unmount

Spec == Init /\ [][Next]_vars

\* ------------------------------------------------------------ properties
\* a step that is a call of plotGraph (up to its await), and a step that is
\* the rest of a call
RequestStarts == PlotClick \/ Mount
RequestResumes == pc = "awaiting" /\ pc' = "idle"

\* a call of plotGraph ended in this step
RequestEnds == (RequestStarts /\ pc' = "idle") \/ RequestResumes
Failed(o) == o \notin {"created", "nocanvas"}

ChartsUntouched == UNCHANGED <<chartInstance, created, destroyed, chartData>>
Live == (1..created) \ destroyed

EveryTextBlank == \A i \in 1..Len(expressions) : Trim(expressions[i].value) = <<>>
IsNumeric(v) == v.t = "num"
IsInteger(v) == v.t = "num" /\ v.d = 1

\* C1: every error ends the request without creating, replacing or
\* destroying a chart, except the no-valid-expressions error, which
\* destroys the existing chart; in particular a failed compilation or
\* evaluation leaves the charts as they were.
C1_ErrorsLeaveChart ==
  [][(RequestEnds /\ Failed(outcome') /\ outcome' # "novalid") => ChartsUntouched]_vars

\* C2: a plot request made while every text is blank fails with the
\* empty-input message, samples nothing, leaves the charts as they were and
\* does not set loading.
C2_AllBlankRejected ==
  [][(RequestStarts /\ EveryTextBlank) =>
       /\ errorMessage' = MsgEmpty
       /\ pc' = "idle"
       /\ loading' = loading
       /\ xValues' = xValues
       /\ ChartsUntouched]_vars

C2_Witness ==
  /\ outcome = "empty" /\ errorMessage = MsgEmpty /\ EveryTextBlank
  /\ chartInstance \in Live /\ ~loading /\ pc = "idle"

\* C3: with a non-blank text, a request whose bounds are missing,
\* non-numeric or not minX < maxX fails with the range message, so a request
\* only ever goes on to sample with two numeric bounds, minX < maxX.
C3_RangeRejected ==
  [][RequestStarts /\ ~EveryTextBlank =>
       IF IsNumeric(minX) /\ IsNumeric(maxX) /\ Less(minX, maxX)
       THEN errorMessage' # MsgRange
       ELSE errorMessage' = MsgRange /\ pc' = "idle"]_vars

\* C4: a request that passed the text and range checks fails with the
\* sample-count message when numPoints is outside [2, 1000], so a request only
\* ever goes on to sample with an integer numPoints, 2 <= numPoints <= 1000.
C4_CountRejected ==
  [][RequestStarts /\ errorMessage' \notin {MsgEmpty, MsgRange} =>
       IF IsInteger(numPoints) /\ MinPoints <= numPoints.n /\ numPoints.n <= MaxPoints
       THEN pc' = "awaiting"
       ELSE errorMessage' = MsgCount /\ pc' = "idle"]_vars

ValidDomain ==
  /\ IsNumeric(minX) /\ IsNumeric(maxX) /\ Less(minX, maxX)
  /\ IsInteger(numPoints) /\ MinPoints <= numPoints.n /\ numPoints.n <= MaxPoints

\* xs[i] is the number minX + (i - 1) * (maxX - minX) / (n - 1)
OnGrid(xs, i, n) ==
  /\ IsNumeric(xs[i])
  /\ xs[i].n * (minX.d * maxX.d * (n - 1)) =
       xs[i].d * (minX.n * maxX.d * (n - 1)
                  + (i - 1) * (maxX.n * minX.d - minX.n * maxX.d))

\* C5: for numeric minX < maxX and an integer numPoints in [2, 1000] the
\* sampling generates exactly numPoints points x_i = minX + i * step, the
\* first minX and the last maxX (for numPoints = 2, the two bounds).
C5_EvenlySpaced ==
  [][RequestResumes /\ ValidDomain =>
       /\ Len(xValues') = numPoints.n
       /\ \A i \in 1..Len(xValues') : OnGrid(xValues', i, numPoints.n)
       /\ xValues'[1] = minX
       /\ xValues'[Len(xValues')] = maxX]_vars

C5_Witness ==
  /\ outcome = "created" /\ ValidDomain /\ numPoints.n = MinPoints
  /\ xValues = <<minX, maxX>>

\* the texts of the non-blank rows, in row order
RECURSIVE NonBlankTexts(_)
NonBlankTexts(rows) ==
  IF rows = <<>> THEN <<>>
  ELSE IF Trim(Head(rows).value) = <<>> THEN NonBlankTexts(Tail(rows))
  ELSE <<Head(rows).value>> \o NonBlankTexts(Tail(rows))

SeriesTexts(datasets) ==
  [k \in 1..Len(datasets) |-> SubSeq(datasets[k].label, 5, Len(datasets[k].label))]

\* C6: on a successful plot the series handed to the renderer are one per
\* non-blank row, in row order; blank rows contribute none.
C6_SeriesPerNonBlank ==
  [][RequestResumes /\ outcome' = "created" =>
       SeriesTexts(chartData'.datasets) = NonBlankTexts(expressions)]_vars

C6_Witness ==
  /\ outcome = "created" /\ Len(expressions) = 2
  /\ expressions[1].value = TextX /\ expressions[2].value = <<>>
  /\ SeriesTexts(chartData.datasets) = <<TextX>>

\* C7: at most one chart is created and not yet destroyed, and once the
\* component is torn down none is.
C7_ChartReleased ==
  /\ Cardinality(Live) <= 1
  /\ phase = "unmounted" => Live = {}

C7_Witness ==
  /\ phase = "unmounted" /\ pc = "idle" /\ created = 2 /\ destroyed = {1, 2}

\* C8: there is always at least one row, the rows' ids are pairwise
\* distinct, and ids are handed out in strictly increasing order, never twice.
C8_RowIds ==
  /\ Len(expressions) >= 1
  /\ \A i, j \in 1..Len(expressions) : i # j => expressions[i].id # expressions[j].id
  /\ \A i, j \in 1..Len(issued) : i < j => issued[i] < issued[j]
  /\ \A i \in 1..Len(expressions) : \E k \in 1..Len(issued) : issued[k] = expressions[i].id
  /\ \A k \in 1..Len(issued) : issued[k] < nextExprId

C8_Witness ==
  /\ Len(issued) = 3 /\ Len(expressions) = 2
  /\ expressions[1].id = 1 /\ expressions[2].id = 3

\* C9: the plot button is disabled exactly while a request is in progress:
\* loading is true from a passed validation to the end of that request and
\* false whenever no request is in progress.
C9_LoadingWhileInProgress == loading <=> pc = "awaiting"

\* the message of the first row, in row order, whose compilation or (when it
\* compiles) evaluation fails; NoMsg when no row fails
RECURSIVE FirstSamplingFailure(_, _)
FirstSamplingFailure(rows, xs) ==
  IF rows = <<>> THEN NoMsg
  ELSE LET text == Head(rows).value IN
    IF Trim(text) = <<>> THEN FirstSamplingFailure(Tail(rows), xs)
    ELSE IF CompileThrows(text) THEN MsgParse(text)
    ELSE IF \E j \in 1..Len(xs) : EvaluateThrows(text, xs[j])
      THEN MsgEval(text, ToNumber(xs[FirstThrow(text, xs)]))
    ELSE FirstSamplingFailure(Tail(rows), xs)

\* C10: after a failed plot request the banner holds the message of the
\* first failure in pipeline order (empty input, range, sample count, then
\* the rows in order, parse before evaluation), whatever it held before.
C10_FirstFailureShown ==
  [][(RequestEnds /\ Failed(outcome')) =>
       /\ errorMessage' # NoMsg
       /\ RequestStarts =>
            errorMessage' = (IF EveryTextBlank THEN MsgEmpty
                             ELSE IF RangeInvalid(minX, maxX) THEN MsgRange
                             ELSE MsgCount)
       /\ (RequestResumes /\ outcome' # "novalid") =>
            errorMessage' = FirstSamplingFailure(expressions, xValues')]_vars

\* the sample a returned value y is to be recorded as
Recorded(y) == IF y.t = "num" THEN y ELSE Null

\* C11: on a plot, every series holds exactly numPoints samples, one per
\* domain point in order, each the value the evaluation returned when that is
\* a finite number and absent otherwise.
C11_SamplesAligned ==
  [][RequestResumes /\ outcome' = "created" =>
       \A k \in 1..Len(chartData'.datasets) :
         LET data == chartData'.datasets[k].data
             text == SeriesTexts(chartData'.datasets)[k]
         IN /\ IsInteger(numPoints) /\ Len(data) = numPoints.n
            /\ Len(data) = Len(xValues')
            /\ \A j \in 1..Len(data) : data[j] = Recorded(Evaluate(text, xValues'[j]))]_vars

\* the positions in the form (counted from 0) of the non-blank rows from row i on
RECURSIVE NonBlankRows(_, _)
NonBlankRows(rows, i) ==
  IF i > Len(rows) THEN <<>>
  ELSE IF Trim(rows[i].value) = <<>> THEN NonBlankRows(rows, i + 1)
  ELSE <<i - 1>> \o NonBlankRows(rows, i + 1)

Palette(k) == lineColors[(k % Len(lineColors)) + 1]

\* C12 as stated: the k-th plotted curve (counted from 0) gets palette
\* entry k mod the palette size, whatever blank rows precede it.
C12_ColorByCurvePosition ==
  [][RequestResumes /\ outcome' = "created" =>
       \A k \in 1..Len(chartData'.datasets) :
         chartData'.datasets[k].borderColor = Palette(k - 1)]_vars

\* C12 amended: a curve gets the palette entry of its row's position in the
\* form (counted from 0, blank rows included) mod the palette size.
C12_ColorByRowPosition ==
  [][RequestResumes /\ outcome' = "created" =>
       /\ Len(chartData'.datasets) = Len(NonBlankRows(expressions, 1))
       /\ \A k \in 1..Len(chartData'.datasets) :
            chartData'.datasets[k].borderColor =
              Palette(NonBlankRows(expressions, 1)[k])]_vars

C12_Witness ==
  /\ outcome = "created" /\ Len(expressions) = 2
  /\ Trim(expressions[1].value) = <<>> /\ Trim(expressions[2].value) # <<>>
  /\ Len(chartData.datasets) = 1
  /\ SeriesTexts(chartData.datasets) = <<expressions[2].value>>
  /\ chartData.datasets[1].borderColor = lineColors[2]

C14_NoValidClears ==
  [][RequestResumes /\ EveryTextBlank =>
       /\ outcome' = "novalid"
       /\ errorMessage' = MsgNoValid
       /\ chartInstance # 0 => chartInstance \in destroyed'
       /\ chartInstance' = 0
       /\ created' = created
       /\ Live' = {}
       /\ loading' = FALSE]_vars

C14_Witness ==
  /\ outcome = "novalid" /\ errorMessage = MsgNoValid /\ EveryTextBlank
  /\ created >= 1 /\ destroyed = 1..created /\ chartInstance = 0
  /\ ~loading /\ pc = "idle"

\* C15: destroy is never called on a chart that is already destroyed, and
\* whenever no request is running the component refers to no chart or to one
\* that is not destroyed.
C15_NoStaleChart ==
  /\ ~redestroyed
  /\ pc = "idle" => (chartInstance = 0 \/ chartInstance \notin destroyed)

\* C16: a request that passes validation clears the banner, and when a
\* request has ended the banner is empty exactly if the request succeeded.
C16_BannerEmptyIffSuccess ==
  [][/\ (RequestStarts /\ pc' = "awaiting") => errorMessage' = NoMsg
     /\ RequestEnds => (errorMessage' = NoMsg <=> ~Failed(outcome'))]_vars

====
